---- MODULE Spec2Model ----
(***************************************************************************)
(* cdc: the run of Cli (src/src/main.rs).  A run expands a leading '~' of  *)
(* the target, walks the target to sum the file sizes, and then walks it   *)
(* again to write every entry that is not excluded into a zip archive.     *)
(*                                                                         *)
(* Strings are sequences of one-character strings, so that the operations  *)
(* of std::path (components, join, strip_prefix, ==) and of str            *)
(* (starts_with, replace, split) are computed and not assumed.  The        *)
(* process runs with "/" as its working directory: the relative path r     *)
(* and the absolute path /r name the same file, yet are different paths.   *)
(***************************************************************************)
EXTENDS Integers, Sequences, FiniteSets, TLC

\* The longest file, in bytes.
MaxFileLen == 1
\* The longest target handed to parse_relative_directory on its own.
MaxPathLen == 3

Last(s) == s[Len(s)]
Front(s) == SubSeq(s, 1, Len(s) - 1)

\* Option<T>: None, or Some(v).
None == <<>>
Some(v) == <<v>>

(***************************************************************************)
(* str and std::path                                                       *)
(***************************************************************************)

\* str::split: the pieces of s between the occurrences of c ("" gives [""]).
RECURSIVE Split(_, _)
Split(s, c) ==
    IF s = <<>> THEN << <<>> >>
    ELSE LET rest == Split(Tail(s), c)
         IN  IF Head(s) = c THEN << <<>> >> \o rest
             ELSE << <<Head(s)>> \o Head(rest) >> \o Tail(rest)

\* str::replace(c, ""): s without any occurrence of c.
RECURSIVE Remove(_, _)
Remove(s, c) ==
    IF s = <<>> THEN <<>>
    ELSE IF Head(s) = c THEN Remove(Tail(s), c)
    ELSE <<Head(s)>> \o Remove(Tail(s), c)

StartsWith(s, c) == s # <<>> /\ s[1] = c

RootDir == <<"/">>
CurDir == <<".">>

IsNormal(seg) == seg # <<>> /\ seg # CurDir

\* Path::components: a leading separator is RootDir, a leading "." without
\* it is CurDir; repeated and trailing separators and any other "." vanish.
Components(s) ==
    LET segs == Split(s, "/")
        lead == IF StartsWith(s, "/") THEN <<RootDir>>
                ELSE IF segs[1] = CurDir THEN <<CurDir>>
                ELSE <<>>
    IN  lead \o SelectSeq(segs, IsNormal)

\* PartialEq of Path and PathBuf: equality of the components.
PathEq(p, q) == Components(p) = Components(q)

\* Path::join of a relative name.
Join(p, name) ==
    IF p = <<>> THEN name
    ELSE IF Last(p) = "/" THEN p \o name
    ELSE p \o <<"/">> \o name

RECURSIVE JoinComps(_)
JoinComps(cs) ==
    IF cs = <<>> THEN <<>>
    ELSE IF Len(cs) = 1 THEN cs[1]
    ELSE cs[1] \o <<"/">> \o JoinComps(Tail(cs))

\* Path::strip_prefix: the rest of p after the components of base.
StripPrefix(p, base) ==
    LET cp == Components(p)
        cb == Components(base)
    IN  IF Len(cb) <= Len(cp) /\ SubSeq(cp, 1, Len(cb)) = cb
        THEN [ok |-> TRUE, rest |-> JoinComps(SubSeq(cp, Len(cb) + 1, Len(cp)))]
        ELSE [ok |-> FALSE, rest |-> <<>>]

(***************************************************************************)
(* The file system                                                         *)
(***************************************************************************)

R == <<"r">>
A == <<"a">>
B == <<"b">>

\* The places a file or a directory may be at: r, r/a, r/b, r/a/a, r/a/b.
Universe == { <<R>>, <<R, A>>, <<R, B>>, <<R, A, A>>, <<R, A, B>> }

Kinds == {"none", "file", "dir"}

TreeOK(f) ==
    \A k \in Universe :
        /\ (Len(k) > 1 /\ f[k].kind # "none") => f[Front(k)].kind = "dir"
        /\ f[k].kind # "file" => f[k].len = 0

FileSystems ==
    { f \in [Universe -> [kind : Kinds, len : 0..MaxFileLen]] : TreeOK(f) }

IsSeed(seg) == seg # RootDir /\ seg # CurDir

\* The place a path names, the working directory being "/".
Resolve(s) == SelectSeq(Components(s), IsSeed)

VARIABLES
    fs,           \* the file system under the working directory
    home,         \* the HOME variable of the environment
    target0,      \* -o as given on the command line
    target,       \* CliArgs.target
    excluded,     \* CliArgs.excluded
    filename_out, \* CliArgs.filename_out
    pc,           \* where the run is
    stack,        \* the stack of the walk in progress
    total_size,   \* calculate_target_size: total_size
    sizeResult,   \* what calculate_target_size returned
    created,      \* the files File::create made
    entries,      \* the entries of the archive sink, in order
    finished,     \* the calls of ZipWriter::finish
    file_counter, \* zip_files: file_counter
    zipResult,    \* what zip_files returned
    errors,       \* the lines of the error stream
    popped,       \* the paths popped by the walk in progress, in order
    listed,       \* the listing paths zip_files has tested
    pushed        \* the listing paths zip_files has pushed

vars == << fs, home, target0, target, excluded, filename_out, pc, stack,
           total_size, sizeResult, created, entries, finished, file_counter,
           zipResult, errors, popped, listed, pushed >>

\* Path::is_dir and the kind of what a path names ("" names nothing).
Kind(s) ==
    LET k == Resolve(s)
    IN  IF s # <<>> /\ k \in Universe THEN fs[k].kind ELSE "none"

IsDir(s) == Kind(s) = "dir"

\* The bytes of a file: each file has bytes of its own.
Content(k) == [i \in 1..fs[k].len |-> k]

\* fs::read_dir: the paths of the entries of a directory, in no order.
ReadDir(s) ==
    LET key == Resolve(s)
    IN  { Join(s, Last(k)) : k \in { c \in Universe : /\ Len(c) = Len(key) + 1
                                                       /\ Front(c) = key
                                                       /\ fs[c].kind # "none" } }

\* The orders a directory may be listed in.
Orders(S) ==
    { o \in [1..Cardinality(S) -> S] : \A i, j \in DOMAIN o : o[i] = o[j] => i = j }

(***************************************************************************)
(* The command line and the environment                                    *)
(***************************************************************************)

\* The target, HOME and the output name of a run: a relative root, the same
\* with a trailing separator, and a root under '~' with HOME unset and set.
Runs ==
    { [t |-> <<"r">>,      h |-> None,          o |-> <<>>],
      [t |-> <<"r", "/">>, h |-> Some(<<"/">>), o |-> <<"o">>],
      [t |-> <<"~", "r">>, h |-> None,          o |-> <<"o">>],
      [t |-> <<"~", "r">>, h |-> Some(<<"/">>), o |-> <<>>] }

ExcludedInputs ==
    { <<>>,
      <<"r", "/", "a">>,
      <<"r", "/", "a", "/">>,
      <<"r", "/", "b", ",", "r", "/", "a", "/", "a">>,
      <<"a", ",", "r">>,
      <<"/", "r", "/", "a">> }

\* The state Cli::new leaves: the walk variables are not yet in use.
Start(f, h, t, e, o) ==
    /\ fs = f
    /\ home = h
    /\ target0 = t
    /\ target = t
    /\ excluded = e
    /\ filename_out = o
    /\ pc = "parse"
    /\ stack = <<>>
    /\ total_size = 0
    /\ sizeResult = [status |-> "none", val |-> 0]
    /\ created = <<>>
    /\ entries = <<>>
    /\ finished = 0
    /\ file_counter = 0
    /\ zipResult = "none"
    /\ errors = <<>>
    /\ popped = <<>>
    /\ listed = {}
    /\ pushed = {}

Init ==
    \E f \in FileSystems, r \in Runs, e \in ExcludedInputs :
        Start(f, r.h, r.t, e, r.o)

(***************************************************************************)
(* Cli                                                                     *)
(***************************************************************************)

ParseRelativeDirectory(t, h) ==
    IF StartsWith(t, "~")
    THEN IF h = None
         THEN [target |-> t, err |-> TRUE]
         ELSE [target |-> h[1] \o Remove(t, "~"), err |-> FALSE]
    ELSE [target |-> t, err |-> FALSE]

PrepareExcludeDirectories(e) == Split(e, ",")

\* The filter, were it to compare the strings and not the paths.
IsExcludedString(e, path) ==
    LET exclude_paths == PrepareExcludeDirectories(e)
    IN  \E i \in DOMAIN exclude_paths : exclude_paths[i] = path

IsExcludedPath(e, path) ==
    LET exclude_paths == PrepareExcludeDirectories(e)
    IN  \E i \in DOMAIN exclude_paths : PathEq(exclude_paths[i], path)

NotExcluded(path) == ~IsExcludedPath(excluded, path)

ConfigureOutputName(name) ==
    IF name = <<>> THEN <<"t", "m", "p", ".", "z", "i", "p">> ELSE name

\* relative_path, were the prefix not stripped.
RelativePathWhole(current, t) == current

\* relative_path of zip_files.
RelativePath(current, t) ==
    LET stripped == StripPrefix(current, t)
    IN  IF stripped.ok THEN stripped.rest ELSE current

\* dir_path, were the separator not pushed.
DirPathBare(relative_path) == relative_path

\* dir_path of zip_files.
DirPath(relative_path) == relative_path \o <<"/">>

\* run, were it to archive whatever calculate_target_size returned.
RunAfterSizeAlways(status) == "create"

\* Where run goes on when calculate_target_size has returned.
RunAfterSize(status) == IF status = "ok" THEN "create" ELSE "done"

\* zip_files, were it to go on with the walk after an error.
AfterZipErrorGoOn == "zip"

\* Where zip_files goes on when an operation of the walk has failed.
AfterZipError == "done"

\* zip_files, were it to finish the sink at any turn of the loop.
LoopEndedAnyTime(st) == TRUE

\* The condition that ends the loop of zip_files.
LoopEnded(st) == st = <<>>

\* The push of calculate_target_size, were it to consult the filter.
CalcPushFiltered(st, o) == st \o SelectSeq(o, NotExcluded)

\* The entries of a listing that calculate_target_size pushes.
CalcPush(st, o) == st \o o

\* The push of zip_files, were every entry pushed twice.
ZipPushTwice(st, o) == st \o SelectSeq(o, NotExcluded) \o SelectSeq(o, NotExcluded)

\* The entries of a listing that zip_files pushes.
ZipPush(st, o) == st \o SelectSeq(o, NotExcluded)

Range(o) == { o[i] : i \in DOMAIN o }

\* The entries a listing that fails may have gone through before it fails.
Before(o) == { SubSeq(o, 1, n) : n \in 0..(IF o = <<>> THEN 0 ELSE Len(o) - 1) }

\* run: parse_relative_directory, its error logged and the run going on.
RunParse ==
    /\ pc = "parse"
    /\ LET parsed == ParseRelativeDirectory(target, home)
       IN  /\ target' = parsed.target
           /\ errors' = IF parsed.err THEN Append(errors, "home") ELSE errors
    /\ pc' = "size_start"
    /\ UNCHANGED << fs, home, target0, excluded, filename_out, stack, total_size,
                    sizeResult, created, entries, finished, file_counter,
                    zipResult, popped, listed, pushed >>

\* calculate_target_size, up to its loop.
CalcStart ==
    /\ pc = "size_start"
    /\ total_size' = 0
    /\ stack' = <<target>>
    /\ popped' = <<>>
    /\ pc' = "size"
    /\ UNCHANGED << fs, home, target0, target, excluded, filename_out,
                    sizeResult, created, entries, finished, file_counter,
                    zipResult, errors, listed, pushed >>

\* One turn of the loop of calculate_target_size.
CalcStep ==
    /\ pc = "size"
    /\ stack # <<>>
    /\ LET current_path == Last(stack)
       IN  /\ popped' = Append(popped, current_path)
           /\ IF IsDir(current_path)
              THEN /\ \E o \in Orders(ReadDir(current_path)) :
                          stack' = CalcPush(Front(stack), o)
                   /\ total_size' = total_size
              ELSE /\ Kind(current_path) = "file"
                   /\ stack' = Front(stack)
                   /\ total_size' = total_size + fs[Resolve(current_path)].len
    /\ UNCHANGED << fs, home, target0, target, excluded, filename_out, pc,
                    sizeResult, created, entries, finished, file_counter,
                    zipResult, errors, listed, pushed >>

\* A turn of that loop in which read_dir, an entry or metadata fails: the
\* error is returned, and run logs it.
CalcFail ==
    /\ pc = "size"
    /\ stack # <<>>
    /\ LET current_path == Last(stack)
       IN  /\ popped' = Append(popped, current_path)
           /\ IF IsDir(current_path)
              THEN \E o \in Orders(ReadDir(current_path)) : \E done \in Before(o) :
                       stack' = CalcPush(Front(stack), done)
              ELSE stack' = Front(stack)
    /\ sizeResult' = [status |-> "err", val |-> 0]
    /\ errors' = Append(errors, "size")
    /\ pc' = RunAfterSize("err")
    /\ UNCHANGED << fs, home, target0, target, excluded, filename_out,
                    total_size, created, entries, finished, file_counter,
                    zipResult, listed, pushed >>

\* The loop of calculate_target_size has ended: Ok(total_size).
CalcReturn ==
    /\ pc = "size"
    /\ stack = <<>>
    /\ sizeResult' = [status |-> "ok", val |-> total_size]
    /\ pc' = RunAfterSize("ok")
    /\ UNCHANGED << fs, home, target0, target, excluded, filename_out, stack,
                    total_size, created, entries, finished, file_counter,
                    zipResult, errors, popped, listed, pushed >>

\* zip_files, up to its loop: the output file, the stack and the sink.
ZipCreate ==
    /\ pc = "create"
    /\ \E ok \in BOOLEAN :
          IF ok
          THEN /\ created' = Append(created, ConfigureOutputName(filename_out))
               /\ stack' = <<target>>
               /\ pc' = "zip"
               /\ UNCHANGED << zipResult, errors >>
          ELSE /\ zipResult' = "err_create"
               /\ errors' = Append(errors, "zip")
               /\ pc' = "done"
               /\ UNCHANGED << created, stack >>
    /\ entries' = <<>>
    /\ file_counter' = 0
    /\ popped' = <<>>
    /\ UNCHANGED << fs, home, target0, target, excluded, filename_out,
                    total_size, sizeResult, finished, listed, pushed >>

\* One turn of the loop of zip_files.
ZipStep ==
    /\ pc = "zip"
    /\ stack # <<>>
    /\ LET current_path == Last(stack)
           relative_path == RelativePath(current_path, target)
       IN  /\ popped' = Append(popped, current_path)
           /\ IF IsDir(current_path)
              THEN /\ \E o \in Orders(ReadDir(current_path)) :
                          /\ stack' = ZipPush(Front(stack), o)
                          /\ listed' = listed \cup Range(o)
                          /\ pushed' = pushed \cup Range(SelectSeq(o, NotExcluded))
                   /\ entries' =
                          IF ~PathEq(relative_path, <<>>)
                          THEN Append(entries, [kind |-> "dir",
                                                name |-> DirPath(relative_path),
                                                payload |-> <<>>])
                          ELSE entries
                   /\ file_counter' = file_counter
              ELSE /\ Kind(current_path) = "file"
                   /\ stack' = Front(stack)
                   /\ entries' = Append(entries,
                                        [kind |-> "file",
                                         name |-> relative_path,
                                         payload |-> Content(Resolve(current_path))])
                   /\ file_counter' = file_counter + 1
                   /\ UNCHANGED << listed, pushed >>
    /\ UNCHANGED << fs, home, target0, target, excluded, filename_out, pc,
                    total_size, sizeResult, created, finished, zipResult, errors >>

\* A turn of that loop in which an operation fails.  In a directory:
\* read_dir or an entry ("list"), or add_directory ("add").  In anything
\* else: start_file ("start"), or, the entry started, File::open or
\* read_to_end ("open"), or write_all after some of the bytes ("write").
ZipFail ==
    /\ pc = "zip"
    /\ stack # <<>>
    /\ LET current_path == Last(stack)
           relative_path == RelativePath(current_path, target)
       IN  /\ popped' = Append(popped, current_path)
           /\ IF IsDir(current_path)
              THEN /\ \E o \in Orders(ReadDir(current_path)) :
                       \E done \in Before(o) \cup
                                   (IF PathEq(relative_path, <<>>) THEN {} ELSE {o}) :
                          /\ stack' = ZipPush(Front(stack), done)
                          /\ listed' = listed \cup Range(done)
                          /\ pushed' = pushed \cup Range(SelectSeq(done, NotExcluded))
                   /\ entries' = entries
              ELSE /\ stack' = Front(stack)
                   /\ \E at \in {"start", "open", "write"} :
                         CASE at = "start" -> entries' = entries
                           [] at = "open" ->
                                entries' = Append(entries, [kind |-> "file",
                                                            name |-> relative_path,
                                                            payload |-> <<>>])
                           [] at = "write" ->
                                /\ Kind(current_path) = "file"
                                /\ \E n \in 0..(fs[Resolve(current_path)].len - 1) :
                                      entries' =
                                          Append(entries,
                                                 [kind |-> "file",
                                                  name |-> relative_path,
                                                  payload |->
                                                      SubSeq(Content(Resolve(current_path)), 1, n)])
                   /\ UNCHANGED << listed, pushed >>
    /\ zipResult' = "err_walk"
    /\ errors' = Append(errors, "zip")
    /\ pc' = AfterZipError
    /\ UNCHANGED << fs, home, target0, target, excluded, filename_out,
                    total_size, sizeResult, created, finished, file_counter >>

\* The loop of zip_files has ended: finish, and Ok(()) unless it fails.
ZipFinish ==
    /\ pc = "zip"
    /\ LoopEnded(stack)
    /\ finished' = finished + 1
    /\ \E ok \in BOOLEAN :
          IF ok
          THEN zipResult' = "ok" /\ errors' = errors
          ELSE zipResult' = "err_finish" /\ errors' = Append(errors, "zip")
    /\ pc' = "done"
    /\ UNCHANGED << fs, home, target0, target, excluded, filename_out, stack,
                    total_size, sizeResult, created, entries, file_counter,
                    popped, listed, pushed >>

Next ==
    \/ RunParse
    \/ CalcStart
    \/ CalcStep
    \/ CalcFail
    \/ CalcReturn
    \/ ZipCreate
    \/ ZipStep
    \/ ZipFail
    \/ ZipFinish

Spec == Init /\ [][Next]_vars

(***************************************************************************)
(* parse_relative_directory on its own: the run up to the parsed target,   *)
(* for every target of at most MaxPathLen characters.                      *)
(***************************************************************************)

TildeChars == {"~", "/", "a"}

TildeTargets ==
    UNION { [1..n -> TildeChars] : n \in 0..MaxPathLen }

TildeHomes == { None, Some(<<"/">>), Some(<<"/", "h">>) }

NoFiles == [k \in Universe |-> [kind |-> "none", len |-> 0]]

InitTilde ==
    \E h \in TildeHomes, t \in TildeTargets : Start(NoFiles, h, t, <<>>, <<>>)

SpecTilde == InitTilde /\ [][RunParse]_vars

(***************************************************************************)
(* What the claims speak of                                                *)
(***************************************************************************)

RootKey == Resolve(target)

\* k is a file or a directory below the root.
Under(k) ==
    /\ k \in Universe
    /\ Len(k) > Len(RootKey)
    /\ SubSeq(k, 1, Len(RootKey)) = RootKey
    /\ fs[k].kind # "none"

\* The root-relative name of k, and the path a listing gives for k.
RelName(k) == JoinComps(SubSeq(k, Len(RootKey) + 1, Len(k)))

ListingPath(k) ==
    IF RelName(k) = <<>> THEN target
    ELSE IF Last(target) = "/" THEN target \o RelName(k)
    ELSE target \o <<"/">> \o RelName(k)

ExclusionStrings == Split(excluded, ",")

\* p equals an exclusion string: as a string, and as a path.
MatchesString(p) == \E i \in DOMAIN ExclusionStrings : ExclusionStrings[i] = p

MatchesPath(p) ==
    \E i \in DOMAIN ExclusionStrings : Components(ExclusionStrings[i]) = Components(p)

\* k or a directory above k (below the root) is excluded.
Skipped(k) ==
    \E n \in (Len(RootKey) + 1)..Len(k) : MatchesPath(ListingPath(SubSeq(k, 1, n)))

SkippedString(k) ==
    \E n \in (Len(RootKey) + 1)..Len(k) : MatchesString(ListingPath(SubSeq(k, 1, n)))

Completed == pc = "done" /\ zipResult = "ok"

EntriesNamed(kind, name) ==
    { i \in DOMAIN entries : entries[i].kind = kind /\ entries[i].name = name }

EntriesOf(k) ==
    EntriesNamed("file", RelName(k)) \cup EntriesNamed("dir", RelName(k) \o <<"/">>)

\* C1: when zip_files has completed without error, every regular file under
\* the root that is neither excluded nor under an excluded directory has
\* exactly one file entry, named by its root-relative path and holding its
\* bytes.
C1_EveryFileOnce ==
    Completed =>
        \A k \in Universe :
            (Under(k) /\ fs[k].kind = "file" /\ ~Skipped(k)) =>
                /\ Cardinality(EntriesNamed("file", RelName(k))) = 1
                /\ \A i \in EntriesNamed("file", RelName(k)) :
                       entries[i].payload = Content(k)

C1_Witness ==
    /\ Completed
    /\ excluded # <<>>
    /\ \E k, j \in Universe :
          /\ Len(k) = 3 /\ Under(k) /\ fs[k].kind = "file" /\ fs[k].len > 0
          /\ ~Skipped(k)
          /\ Len(j) = 2 /\ Under(j) /\ fs[j].kind = "file"
          /\ ~Skipped(j)

\* C2: when zip_files has completed without error, every directory under the
\* root (the root apart), empty or not, that is neither excluded nor under an
\* excluded directory has exactly one directory entry, named by its
\* root-relative path followed by '/', without payload.
C2_EveryDirectoryOnce ==
    Completed =>
        \A k \in Universe :
            (Under(k) /\ fs[k].kind = "dir" /\ ~Skipped(k)) =>
                /\ Cardinality(EntriesNamed("dir", RelName(k) \o <<"/">>)) = 1
                /\ \A i \in EntriesNamed("dir", RelName(k) \o <<"/">>) :
                       entries[i].payload = <<>>

C2_Witness ==
    /\ Completed
    /\ \E k, j \in Universe :
          /\ Under(k) /\ fs[k].kind = "dir" /\ ~Skipped(k) /\ ReadDir(ListingPath(k)) = {}
          /\ Under(j) /\ fs[j].kind = "dir" /\ ~Skipped(j) /\ ReadDir(ListingPath(j)) # {}

C4_RootNeverEmitted ==
    \A i \in DOMAIN entries : entries[i].name # <<>>

RECURSIVE SumLen(_)
SumLen(S) ==
    IF S = {} THEN 0
    ELSE LET k == CHOOSE x \in S : TRUE
         IN  fs[k].len + SumLen(S \ {k})

\* The regular files of the tree the root is the top of.
FilesOfRoot ==
    { k \in Universe : /\ Len(k) >= Len(RootKey)
                       /\ SubSeq(k, 1, Len(RootKey)) = RootKey
                       /\ fs[k].kind = "file" }

\* C5: Ok of calculate_target_size holds the sum of the lengths of all the
\* regular files of the root's tree, those under excluded paths too; an
\* error holds no sum.
C5_SizeIsSumOfAllFiles ==
    /\ sizeResult.status = "ok" => sizeResult.val = SumLen(FilesOfRoot)
    /\ sizeResult.status = "err" => sizeResult.val = 0
    /\ sizeResult.status = "none" => sizeResult.val = 0

C5_Witness ==
    /\ sizeResult.status = "ok"
    /\ sizeResult.val >= 2
    /\ \E k \in FilesOfRoot : Len(k) = 3 /\ fs[k].len > 0 /\ Skipped(k)

C5_WitnessError ==
    /\ sizeResult.status = "err"
    /\ total_size > 0

\* C6: the sink is opened at most once and finish is called at most once,
\* with the stack empty and as the last act of zip_files; once finish has
\* been called no entry is added; a run of zip_files that completes without
\* error has called finish exactly once.
C6_FinishedOnceAtTheEnd ==
    /\ [](/\ Len(created) <= 1
          /\ finished <= 1
          /\ finished = 1 => (stack = <<>> /\ pc = "done" /\ Len(created) = 1)
          /\ Completed => finished = 1)
    /\ [][finished >= 1 => entries' = entries]_vars

C6_Witness ==
    /\ Completed
    /\ finished = 1
    /\ Len(entries) >= 3

\* C7: the turn of the walk of zip_files in which an operation fails is the
\* last one: it leaves the entries written before it as they were, adding at
\* most the entry it had started, it does not call finish, and after it no
\* path is popped, no entry is added and finish is not called.
C7_WalkAbortsOnError ==
    [][/\ (zipResult # "err_walk" /\ zipResult' = "err_walk") =>
              /\ pc' = "done"
              /\ finished' = 0
              /\ Len(popped') = Len(popped) + 1
              /\ Len(entries') <= Len(entries) + 1
              /\ SubSeq(entries', 1, Len(entries)) = entries
       /\ zipResult = "err_walk" =>
              UNCHANGED << entries, popped, stack, finished, file_counter, zipResult >>]_vars

C7_Witness ==
    /\ zipResult = "err_walk"
    /\ pc = "done"
    /\ Len(entries) >= 2
    /\ stack # <<>>
    /\ finished = 0

Logged(what) == \E i \in DOMAIN errors : errors[i] = what

\* C8: zip_files starts only when calculate_target_size has returned Ok; when
\* it has returned an error, the error is logged, the run is over, the output
\* file has not been created and no entry has been written.
C8_NoArchiveWithoutSize ==
    /\ (pc \in {"create", "zip"} \/ created # <<>> \/ zipResult # "none" \/ entries # <<>>)
           => sizeResult.status = "ok"
    /\ sizeResult.status = "err" =>
           /\ Logged("size")
           /\ pc = "done"
           /\ created = <<>>
           /\ entries = <<>>
           /\ zipResult = "none"

C8_Witness ==
    /\ sizeResult.status = "err"
    /\ Len(popped) >= 3
    /\ pc = "done"

NoRepeat(seq) ==
    \A i, j \in DOMAIN seq : Resolve(seq[i]) = Resolve(seq[j]) => i = j

\* C9: in the walk in progress (that of calculate_target_size, then that of
\* zip_files) no path is popped twice, nor is a popped path on the stack or
\* a path twice on it; the first path popped is the root, and the directory
\* above any other path popped or on the stack has been popped before it;
\* a walk that ends without error ends with the stack empty.
C9_OnceAndAfterParent ==
    /\ NoRepeat(popped \o stack)
    /\ popped # <<>> => popped[1] = target
    /\ \A i \in 2..Len(popped) :
           \E j \in 1..(i - 1) :
               IsDir(popped[j]) /\ Resolve(popped[j]) = Front(Resolve(popped[i]))
    /\ \A i \in DOMAIN stack :
           \/ popped = <<>> /\ stack[i] = target
           \/ \E j \in DOMAIN popped :
                  IsDir(popped[j]) /\ Resolve(popped[j]) = Front(Resolve(stack[i]))
    /\ (pc = "create" \/ Completed) => stack = <<>>

C9_Witness ==
    /\ Completed
    /\ Len(popped) = 5

\* C10: with HOME set, a target that starts with '~' becomes HOME followed
\* by the target without that first character, any later '~' kept; a target
\* that does not start with '~' is left as it is.
C10_OnlyLeadingTilde ==
    pc = "size_start" =>
        /\ (StartsWith(target0, "~") /\ home # None) => target = home[1] \o Tail(target0)
        /\ ~StartsWith(target0, "~") => target = target0

====
